---- MODULE Spec2Model ----
(***************************************************************************)
(* The session state machine of ig_rest_client: the two session classes    *)
(* IgRestSessionUsingVersion2LogIn (V2, CST / X-SECURITY-TOKEN headers)    *)
(* and IgRestSessionUsingVersion3LogIn (V3, OAuth bearer token with        *)
(* expiry), the facade of AbstractIgRestSession, and the server they talk  *)
(* to through requests.request.                                            *)
(*                                                                         *)
(* The Python call stack is explicit (stack, a sequence of frames, the top *)
(* at the end).  Every action is one step of the frame on top: a transport *)
(* exchange (the request goes out and the answer comes back) together with *)
(* the code that follows it, or the code between two calls.  An exception  *)
(* unwinds the whole stack, since no frame of the program catches one.     *)
(***************************************************************************)
EXTENDS Integers, Sequences, FiniteSets, TLC

\* TLC keeps the fields of a record in the order in which the module first
\* names them: every record below lists its fields in this order.
FieldOrder ==
    <<[access_token |-> 1, accountId |-> 2, account_id |-> 3, arg |-> 4,
       args |-> 5, currentAccountId |-> 6, data |-> 7, dealId |-> 8,
       defaultAccount |-> 9, default_account |-> 10, encryptedPassword |-> 11,
       endpoint |-> 12, exception |-> 13, expired |-> 14, expires_in |-> 15,
       fn |-> 16, headers |-> 17, identifier |-> 18, json |-> 19, kind |-> 20,
       logged_out |-> 21, method |-> 22, msg |-> 23, none |-> 24,
       oauthToken |-> 25, op |-> 26, own |-> 27, password |-> 28,
       payload |-> 29, pc |-> 30,
       refresh_token |-> 31, reply |-> 32, response_headers |-> 33,
       status_code |-> 34, text |-> 35, timestamp |-> 36, type |-> 37,
       value |-> 38]>>

VARIABLES
    variant,                  \* "V2" or "V3": the class of the session object
    rest_api_timeout,         \* self._rest_api_timeout
    account_id,               \* self._account_id
    authorization_headers,    \* self._authorization_headers
    oauth_token,              \* self._oauth_token (V3)
    token_expiry_timestamp,   \* self._token_expiry_timestamp (V3)
    stack,                    \* the frames of the facade call in progress
    recursion_limit,          \* the frames the interpreter grants such a call
    ret,                      \* the value the last finished frame returned
    now,                      \* time.monotonic()
    srv_account,              \* the account the server holds as active
    srv_serial,               \* the serial number of the last token it issued
    call,                     \* the facade call in progress, or the last one
    outcome,                  \* how that call ended
    sent,                     \* the transport requests of that call, in order
    logged                    \* the log.error records of that call, in order

client == <<variant, rest_api_timeout, account_id, authorization_headers,
            oauth_token, token_expiry_timestamp>>
vars == <<variant, rest_api_timeout, account_id, authorization_headers,
          oauth_token, token_expiry_timestamp, stack, recursion_limit, ret,
          now, srv_account, srv_serial, call, outcome, sent, logged>>

----------------------------------------------------------------------------
(* Bounds of the model. *)

\* the clock stops advancing here
MaxTime == 3
\* a transport exchange takes 0..MaxLatency ticks
MaxLatency == 1
\* a facade call starts 0..MaxDelay ticks after the one before it ended
MaxDelay == 2
\* the server grants expires_in in 1..MaxExpiresIn
MaxExpiresIn == 3
\* the server numbers its tokens 1..NumTokens, and then starts again
NumTokens == 2
\* frames on the stack
MaxDepth == 6
\* frames on the stack where the nesting of logins is followed further
MaxChainDepth == 10

DEFAULT_TIMEOUT_IN_SECONDS == 10

Accounts == {"ABC123", "XYZ999"}
ExpiresIns == 1..MaxExpiresIn
Statuses == {200, 401}
\* the three shapes of rest_api_timeout the code tells apart
TimeoutConfigs == {[type |-> "float", value |-> 2],
                   [type |-> "int", value |-> 1],
                   [type |-> "NoneType", value |-> 0]}

None == [none |-> TRUE]
\* no facade call has ended yet, or one is in progress
Pending == [kind |-> "pending"]
EmptyDict == [k \in {} |-> k]

\* {**f, **g} and f.update(g): the keys of both, g's value where both have one
Merge(f, g) ==
    [k \in DOMAIN f \cup DOMAIN g |-> IF k \in DOMAIN g THEN g[k] ELSE f[k]]

\* json.dumps(data), and None where there is no data
json_dumps(data) == IF data = None THEN None ELSE [json |-> data]

\* response.ok of requests: the status is below 400
ok(response) == response.status_code < 400

\* self._headers, set by both constructors
headers ==
    [k \in {"Content-Type", "Accept", "X-IG-API-KEY"} |->
        CASE k = "Content-Type" -> "application/json"
          [] k = "Accept" -> "application/json; charset=UTF-8"
          [] k = "X-IG-API-KEY" -> "api_key"]

Version(v) == [k \in {"Version"} |-> v]

----------------------------------------------------------------------------
(* Frames. *)

Frame(fn, pc, arg) == [arg |-> arg, fn |-> fn, pc |-> pc]
RequestArg(method, endpoint, hdrs, data) ==
    [data |-> data, endpoint |-> endpoint, headers |-> hdrs, method |-> method]

Idle == stack = <<>>
Top == stack[Len(stack)]
At(fn, pc) == ~Idle /\ Top.fn = fn /\ Top.pc = pc
Popped == SubSeq(stack, 1, Len(stack) - 1)
Goto(pc) == [stack EXCEPT ![Len(stack)].pc = pc]
\* the top frame moves to pc and calls frame f
Calls(pc, f) == Append(Goto(pc), f)

\* the top frame returns value v to its caller
Returns(v) ==
    /\ stack' = Popped
    /\ ret' = v
    /\ outcome' = IF Len(stack) = 1 THEN [kind |-> "return", value |-> v]
                  ELSE outcome

\* the top frame raises: no frame catches, the facade call ends
Raises(exception) ==
    /\ stack' = <<>>
    /\ ret' = None
    /\ outcome' = [exception |-> exception, kind |-> "raise"]

Exception(args) == [args |-> args, type |-> "Exception"]
LogError(tag, response) ==
    <<[msg |-> tag],
      [arg |-> response.status_code, msg |-> "Status code: %s"],
      [arg |-> response.text, msg |-> "Response text: %s"]>>

\* a frame of _log_in is on the stack: the request is part of a login
InLogIn == \E i \in 1..Len(stack) : stack[i].fn = "_log_in"

\* what the record of a request keeps of the answer: the account and the
\* access token it names, if any
Reply(response) ==
    CASE response.json = None -> None
      [] "oauthToken" \in DOMAIN response.json ->
            [access_token |-> response.json.oauthToken.access_token,
             accountId |-> response.json.accountId]
      [] "access_token" \in DOMAIN response.json ->
            [access_token |-> response.json.access_token]
      [] OTHER -> response.json

Request(kind, method, endpoint, hdrs, data, response) ==
    [data |-> data, endpoint |-> endpoint, headers |-> hdrs, kind |-> kind,
     method |-> method, own |-> ~InLogIn, reply |-> Reply(response),
     response_headers |-> response.headers,
     status_code |-> response.status_code]

----------------------------------------------------------------------------
(* The server, as far as the client reads its answers. *)

FailedResponses ==
    [headers : {EmptyDict}, json : {None},
     status_code : {s \in Statuses : s >= 400}, text : {"error"}]

\* every token the server issues is a new one: the serial number after the
\* last, tagged with what the token is for
NewSerial == 1 + (srv_serial % NumTokens)
NewToken(tag) == <<tag, NewSerial>>
\* POST /session, Version 2: both tokens as headers, currentAccountId
V2LogInResponses ==
    FailedResponses \cup
    { [headers |-> [k \in {"CST", "X-SECURITY-TOKEN"} |-> NewToken(k)],
       json |-> [currentAccountId |-> a],
       status_code |-> 200, text |-> ""] : a \in Accounts }

\* an answer to an authenticated request: the server may rotate either token
RotatedHeaders ==
    { [k \in S |-> NewToken(k)] : S \in SUBSET {"CST", "X-SECURITY-TOKEN"} }

\* the bodies the server may send to arg: GET /session names the active
\* account, DELETE /session has no content
Bodies(arg) ==
    IF arg.endpoint = "session"
    THEN CASE arg.method = "GET" -> {[accountId |-> srv_account]}
           [] arg.method = "PUT" -> {[accountId |-> arg.data.accountId]}
           [] OTHER -> {None}
    ELSE IF arg.method = "DELETE" THEN {None} ELSE {[payload |-> "data"]}

\* an answer to a bearer-token request: outside /session it may carry headers
\* under the names the client stores
EchoedHeaders(arg) ==
    IF arg.endpoint = "session"
    THEN {EmptyDict}
    ELSE {EmptyDict, [k \in {"Authorization", "IG-ACCOUNT-ID"} |-> "server"]}

RequestResponses(arg) ==
    FailedResponses \cup
    { [headers |-> h, json |-> b, status_code |-> 200, text |-> ""] :
      <<h, b>> \in (IF variant = "V2" THEN RotatedHeaders ELSE EchoedHeaders(arg))
                   \X Bodies(arg) }

\* PUT /session makes the account of the body the active one
ServerAfter(arg, response) ==
    IF ok(response) /\ arg.endpoint = "session" /\ arg.method = "PUT"
    THEN arg.data.accountId
    ELSE srv_account

\* the clock moves on by d ticks; only V3 reads it, so it stands still for V2
Elapsed(d) ==
    /\ variant = "V2" => d = 0
    /\ now + d <= MaxTime
    /\ now' = now + d

\* a transport exchange takes some ticks of the clock
Exchanged == \E l \in 0..MaxLatency : Elapsed(l)

----------------------------------------------------------------------------
(* AbstractIgRestSession: the facade. *)

\* the session is logged in and the clock is at or past the stored expiry
Expired ==
    /\ oauth_token # None
    /\ authorization_headers # None
    /\ token_expiry_timestamp # None
    /\ now >= token_expiry_timestamp.timestamp

\* the facade call that ended last was a log_out, and it returned
LoggedOut == call # None /\ call.op = "log_out" /\ outcome.kind = "return"

StartCall(op, arg, frame) ==
    /\ Idle
    /\ UNCHANGED <<client, recursion_limit, srv_account, srv_serial>>
    /\ stack' = <<frame>>
    /\ \E d \in 0..MaxDelay : Elapsed(d)
    /\ call' = [account_id |-> account_id, arg |-> arg, expired |-> Expired',
                logged_out |-> LoggedOut, op |-> op]
    /\ outcome' = Pending
    /\ ret' = None
    /\ sent' = <<>>
    /\ logged' = <<>>

Endpoints == {"positions"}
Payload == [dealId |-> "D1"]
\* the headers argument of get: left out, or a dict that names a header of
\* self._headers and headers of self._authorization_headers (post, put and
\* delete hand theirs to the same _request, and are called without)
CallerHeaders ==
    {None,
     [k \in {"Accept", "CST", "IG-ACCOUNT-ID"} |->
         IF k = "Accept" THEN "text/plain" ELSE "caller"]}

get ==
    \E e \in Endpoints, h \in CallerHeaders :
        StartCall("get", RequestArg("GET", e, h, None),
                  Frame("_request", "start", RequestArg("GET", e, h, None)))

post ==
    \E e \in Endpoints, h \in {None} :
        StartCall("post", RequestArg("POST", e, h, Payload),
                  Frame("_request", "start", RequestArg("POST", e, h, Payload)))

put ==
    \E e \in Endpoints, h \in {None} :
        StartCall("put", RequestArg("PUT", e, h, Payload),
                  Frame("_request", "start", RequestArg("PUT", e, h, Payload)))

delete ==
    \E e \in Endpoints, h \in {None} :
        StartCall("delete", RequestArg("DELETE", e, h, None),
                  Frame("_request", "start", RequestArg("DELETE", e, h, None)))

SwitchArg(a) == [account_id |-> a, default_account |-> FALSE]

\* a caller calls switch_session_account(a)
switch_session_account ==
    \E a \in Accounts :
        StartCall("switch_session_account", SwitchArg(a),
                  Frame("switch_session_account", "start", SwitchArg(a)))

\* lines 50-51 in the other order: the account is set before the PUT is sent
switch_session_account_put_Eager ==
    /\ At("switch_session_account", "start")
    /\ Len(stack) < recursion_limit
    /\ account_id' = Top.arg.account_id
    /\ stack' = Calls("put_returned",
                      Frame("_request", "start",
                            RequestArg("PUT", "session", Version("1"),
                                       [accountId |-> Top.arg.account_id,
                                        defaultAccount |-> Top.arg.default_account])))
    /\ UNCHANGED <<variant, rest_api_timeout, recursion_limit, authorization_headers, oauth_token,
                   token_expiry_timestamp, ret, now, srv_account, srv_serial,
                   call, outcome, sent, logged>>

\* line 50: self.put('session', ...)
switch_session_account_put ==
    /\ At("switch_session_account", "start")
    /\ Len(stack) < recursion_limit
    /\ stack' = Calls("put_returned",
                      Frame("_request", "start",
                            RequestArg("PUT", "session", Version("1"),
                                       [accountId |-> Top.arg.account_id,
                                        defaultAccount |-> Top.arg.default_account])))
    /\ UNCHANGED <<client, recursion_limit, ret, now, srv_account, srv_serial, call, outcome, sent, logged>>

\* self._set_account_id(account_id) of either class
set_account_id(a) ==
    /\ account_id' = a
    /\ authorization_headers' =
           IF variant = "V3"
           THEN Merge(authorization_headers, [k \in {"IG-ACCOUNT-ID"} |-> a])
           ELSE authorization_headers

\* line 51 left out: the answer of the PUT is returned, the account is kept
switch_session_account_return_Keeps ==
    /\ At("switch_session_account", "put_returned")
    /\ Returns(ret)
    /\ UNCHANGED <<client, recursion_limit, now, srv_account, srv_serial, call, sent, logged>>

\* lines 51-52
switch_session_account_return ==
    /\ At("switch_session_account", "put_returned")
    /\ set_account_id(Top.arg.account_id)
    /\ Returns(ret)
    /\ UNCHANGED <<variant, rest_api_timeout, recursion_limit, oauth_token,
                   token_expiry_timestamp, now, srv_account, srv_serial, call, sent, logged>>

session_details ==
    StartCall("session_details", None, Frame("session_details", "start", None))

\* line 55: self.get('session', ...)
session_details_get ==
    /\ At("session_details", "start")
    /\ Len(stack) < recursion_limit
    /\ stack' = Calls("get_returned",
                      Frame("_request", "start",
                            RequestArg("GET", "session", Version("1"), None)))
    /\ UNCHANGED <<client, recursion_limit, ret, now, srv_account, srv_serial, call, outcome, sent, logged>>

\* line 56 with the comparison turned round
AccountIdMismatch_Inverted(result_json) == account_id = result_json.accountId

\* the condition of line 56
AccountIdMismatch(result_json) == account_id # result_json.accountId

\* lines 56-58
session_details_return ==
    /\ At("session_details", "get_returned")
    /\ IF AccountIdMismatch(ret)
       THEN Raises(Exception(<<"incorrect accountId in session details">>))
       ELSE Returns(ret)
    /\ UNCHANGED <<client, recursion_limit, now, srv_account, srv_serial, call, sent, logged>>

log_out ==
    StartCall("log_out", None, Frame("log_out", "start", None))

\* line 61: self.delete('session', ...)
log_out_delete ==
    /\ At("log_out", "start")
    /\ Len(stack) < recursion_limit
    /\ stack' = Calls("delete_returned",
                      Frame("_request", "start",
                            RequestArg("DELETE", "session", Version("1"), None)))
    /\ UNCHANGED <<client, recursion_limit, ret, now, srv_account, srv_serial, call, outcome, sent, logged>>

\* log_out forgetting the session it has just ended
log_out_return_Clears ==
    /\ At("log_out", "delete_returned")
    /\ authorization_headers' = None
    /\ oauth_token' = None
    /\ token_expiry_timestamp' = None
    /\ Returns(None)
    /\ UNCHANGED <<variant, rest_api_timeout, recursion_limit, account_id, now, srv_account,
                   srv_serial, call, sent, logged>>

\* log_out returns None
log_out_return ==
    /\ At("log_out", "delete_returned")
    /\ Returns(None)
    /\ UNCHANGED <<client, recursion_limit, now, srv_account, srv_serial, call, sent, logged>>

----------------------------------------------------------------------------
(* IgRestSessionUsingVersion2LogIn. *)

\* the test of line 97 turned round: log in when there are headers already
V2NeedsLogIn_Inverted == authorization_headers # None

\* not self._authorization_headers
V2NeedsLogIn == authorization_headers = None

\* lines 97-98
V2_request ==
    /\ variant = "V2"
    /\ At("_request", "start")
    /\ IF V2NeedsLogIn
       THEN /\ Len(stack) < recursion_limit
            /\ stack' = Calls("send", Frame("_log_in", "start", None))
       ELSE stack' = Goto("send")
    /\ UNCHANGED <<client, recursion_limit, ret, now, srv_account, srv_serial, call, outcome, sent, logged>>

\* lines 100-102 merging the other way: the stored headers are laid over the
\* caller's
MyHeaders_CallerLoses(arg) ==
    IF arg.headers = None
    THEN Merge(headers, authorization_headers)
    ELSE Merge(arg.headers, Merge(headers, authorization_headers))

\* lines 100-102
MyHeaders(arg) ==
    IF arg.headers = None
    THEN Merge(headers, authorization_headers)
    ELSE Merge(Merge(headers, authorization_headers), arg.headers)

\* lines 112-114 for the first tracked header only
V2Absorb_OnlyCST(response_headers) ==
    [h \in DOMAIN authorization_headers |->
        IF h = "CST" /\ h \in DOMAIN response_headers
        THEN response_headers[h]
        ELSE authorization_headers[h]]

\* lines 112-114: each tracked header the response carries is taken over
V2Absorb(response_headers) ==
    [h \in DOMAIN authorization_headers |->
        IF h \in DOMAIN response_headers
        THEN response_headers[h]
        ELSE authorization_headers[h]]

\* lines 116-119
Result(response) == IF response.json # None THEN response.json ELSE EmptyDict

\* lines 120-124
V2RequestFailed(response) ==
    /\ authorization_headers' = authorization_headers
    /\ logged' = logged \o LogError("Request failed", response)
    /\ Raises(Exception(<<>>))

\* lines 100-124
V2_request_send ==
    /\ variant = "V2"
    /\ At("_request", "send")
    /\ \E response \in RequestResponses(Top.arg) :
        /\ Exchanged
        /\ sent' = Append(sent, Request("request", Top.arg.method,
                                        Top.arg.endpoint, MyHeaders(Top.arg),
                                        json_dumps(Top.arg.data), response))
        /\ srv_account' = ServerAfter(Top.arg, response)
        /\ srv_serial' = IF ok(response) /\ response.headers # EmptyDict
                         THEN NewSerial ELSE srv_serial
        /\ IF ok(response)
           THEN /\ authorization_headers' = V2Absorb(response.headers)
                /\ Returns(Result(response))
                /\ logged' = logged
           ELSE V2RequestFailed(response)
    /\ UNCHANGED <<variant, rest_api_timeout, recursion_limit, account_id, oauth_token,
                   token_expiry_timestamp, call>>

\* lines 139-140
V2LogInHeaders(response_headers) ==
    [h \in {"CST", "X-SECURITY-TOKEN"} |-> response_headers[h]]

\* line 142 without the comparison: the account of the answer is taken over
V2AccountDiffers_Never(response_json) == FALSE

\* the condition of line 142
V2AccountDiffers(response_json) == account_id # response_json.currentAccountId

\* lines 133-137
V2LogInFailed(response) ==
    /\ UNCHANGED <<authorization_headers, srv_account>>
    /\ logged' = logged \o LogError("Failed to log in", response)
    /\ Raises(Exception(<<>>))

\* lines 127-143
V2_log_in ==
    /\ variant = "V2"
    /\ At("_log_in", "start")
    /\ \E response \in V2LogInResponses :
        /\ Exchanged
        /\ sent' = Append(sent, Request("log_in", "POST", "session",
                                        Merge(headers, Version("2")),
                                        json_dumps([encryptedPassword |-> FALSE,
                                                    identifier |-> "username",
                                                    password |-> "password"]),
                                        response))
        /\ srv_serial' = IF ok(response) THEN NewSerial ELSE srv_serial
        /\ IF ok(response)
           THEN /\ authorization_headers' = V2LogInHeaders(response.headers)
                /\ srv_account' = response.json.currentAccountId
                /\ logged' = logged
                /\ outcome' = outcome
                /\ ret' = ret
                /\ IF V2AccountDiffers(response.json)
                   THEN /\ Len(stack) < recursion_limit
                        /\ stack' = Calls("switched",
                                          Frame("switch_session_account", "start",
                                                SwitchArg(account_id)))
                   ELSE stack' = Goto("switched")
           ELSE V2LogInFailed(response)
    /\ UNCHANGED <<variant, rest_api_timeout, recursion_limit, account_id, oauth_token,
                   token_expiry_timestamp, call>>

\* _log_in returns None
log_in_return ==
    /\ At("_log_in", "switched")
    /\ Returns(None)
    /\ UNCHANGED <<client, recursion_limit, now, srv_account, srv_serial, call, sent, logged>>

----------------------------------------------------------------------------
(* IgRestSessionUsingVersion3LogIn. *)

\* not (self._oauth_token and self._authorization_headers)
V3NeedsLogIn == ~(oauth_token # None /\ authorization_headers # None)

\* lines 184-185
V3_request ==
    /\ variant = "V3"
    /\ At("_request", "start")
    /\ IF V3NeedsLogIn
       THEN /\ Len(stack) < recursion_limit
            /\ stack' = Calls("logged_in", Frame("_log_in", "start", None))
       ELSE stack' = Goto("logged_in")
    /\ UNCHANGED <<client, recursion_limit, ret, now, srv_account, srv_serial, call, outcome, sent, logged>>

\* lines 173-181
V3_time_when_request_completes ==
    CASE rest_api_timeout.type = "float" -> now + rest_api_timeout.value
      [] rest_api_timeout.type = "int" -> now + rest_api_timeout.value
      [] OTHER -> now + DEFAULT_TIMEOUT_IN_SECONDS

\* line 187 without the time the request takes: refresh once expired
V3NeedsRefresh_AtExpiry == now >= token_expiry_timestamp.timestamp

\* the condition of line 187
V3NeedsRefresh ==
    V3_time_when_request_completes > token_expiry_timestamp.timestamp

\* lines 187-188
V3_request_check_expiry ==
    /\ variant = "V3"
    /\ At("_request", "logged_in")
    /\ IF V3NeedsRefresh
       THEN /\ Len(stack) < recursion_limit
            /\ stack' = Calls("send", Frame("_refresh_token", "start", None))
       ELSE stack' = Goto("send")
    /\ UNCHANGED <<client, recursion_limit, ret, now, srv_account, srv_serial, call, outcome, sent, logged>>

\* lines 205-209 with the session dropped, so that the next call logs in again
V3RequestFailed_DropsSession(response) ==
    /\ authorization_headers' = None
    /\ oauth_token' = None
    /\ token_expiry_timestamp' = None
    /\ logged' = logged \o LogError("Request failed", response)
    /\ Raises(Exception(<<>>))

\* lines 205-209
V3RequestFailed(response) ==
    /\ UNCHANGED <<authorization_headers, oauth_token, token_expiry_timestamp>>
    /\ logged' = logged \o LogError("Request failed", response)
    /\ Raises(Exception(<<>>))

\* lines 200-204 taking over the stored headers the response carries, as
\* the other class does
V3RequestSucceeded_Absorbs(response) ==
    /\ authorization_headers' = V2Absorb(response.headers)
    /\ UNCHANGED <<oauth_token, token_expiry_timestamp>>
    /\ logged' = logged
    /\ Returns(Result(response))

\* lines 200-204: the answer is returned, its headers are not read
V3RequestSucceeded(response) ==
    /\ UNCHANGED <<authorization_headers, oauth_token, token_expiry_timestamp>>
    /\ logged' = logged
    /\ Returns(Result(response))

\* lines 190-209
V3_request_send ==
    /\ variant = "V3"
    /\ At("_request", "send")
    /\ \E response \in RequestResponses(Top.arg) :
        /\ Exchanged
        /\ sent' = Append(sent, Request("request", Top.arg.method,
                                        Top.arg.endpoint, MyHeaders(Top.arg),
                                        json_dumps(Top.arg.data), response))
        /\ srv_account' = ServerAfter(Top.arg, response)
        /\ IF ok(response)
           THEN V3RequestSucceeded(response)
           ELSE V3RequestFailed(response)
    /\ UNCHANGED <<variant, rest_api_timeout, recursion_limit, account_id, srv_serial, call>>

\* the oauthToken object of the server
OAuthTokens ==
    [access_token : {NewToken("access")}, expires_in : ExpiresIns,
     refresh_token : {NewToken("refresh")}]

\* POST /session, Version 3
V3LogInResponses ==
    FailedResponses \cup
    { [headers |-> EmptyDict, json |-> [accountId |-> a, oauthToken |-> t],
       status_code |-> 200, text |-> ""] :
      <<a, t>> \in Accounts \X OAuthTokens }

\* POST /session/refresh-token
V3RefreshResponses ==
    FailedResponses \cup
    { [headers |-> EmptyDict, json |-> t, status_code |-> 200, text |-> ""] :
      t \in OAuthTokens }

\* 'Bearer ' + access_token
Bearer(token) == <<"Bearer ">> \o token.access_token

\* lines 224-225
V3LogInHeaders(response_json) ==
    [h \in {"IG-ACCOUNT-ID", "Authorization"} |->
        IF h = "IG-ACCOUNT-ID" THEN response_json.accountId
        ELSE Bearer(response_json.oauthToken)]

\* the clock read before the request went out
Expiry_FromRequestStart(token) == [timestamp |-> now + token.expires_in]

\* lines 226 and 247: time.monotonic() + float(expires_in), read after the answer
Expiry(token) == [timestamp |-> now' + token.expires_in]

\* the condition of line 228
V3AccountDiffers(response_json) == account_id # response_json.accountId

\* lines 218-221 trying again instead of raising
V3LogInFailed_Retries(response) ==
    /\ UNCHANGED <<oauth_token, authorization_headers, token_expiry_timestamp,
                   srv_account, outcome, ret>>
    /\ logged' = logged \o LogError("Failed to log in", response)
    /\ stack' = Goto("start")

\* lines 218-221 with the session dropped before raising
V3LogInFailed_Clears(response) ==
    /\ authorization_headers' = None
    /\ oauth_token' = None
    /\ token_expiry_timestamp' = None
    /\ srv_account' = srv_account
    /\ logged' = logged \o LogError("Failed to log in", response)
    /\ Raises(Exception(<<>>))

\* lines 217-221
V3LogInFailed(response) ==
    /\ UNCHANGED <<oauth_token, authorization_headers, token_expiry_timestamp,
                   srv_account>>
    /\ logged' = logged \o LogError("Failed to log in", response)
    /\ Raises(Exception(<<>>))

\* lines 212-229
V3_log_in ==
    /\ variant = "V3"
    /\ At("_log_in", "start")
    /\ \E response \in V3LogInResponses :
        /\ Exchanged
        /\ sent' = Append(sent, Request("log_in", "POST", "session",
                                        Merge(headers, Version("3")),
                                        json_dumps([identifier |-> "username",
                                                    password |-> "password"]),
                                        response))
        /\ srv_serial' = IF ok(response) THEN NewSerial ELSE srv_serial
        /\ IF ok(response)
           THEN /\ oauth_token' = response.json.oauthToken
                /\ authorization_headers' = V3LogInHeaders(response.json)
                /\ token_expiry_timestamp' = Expiry(response.json.oauthToken)
                /\ srv_account' = response.json.accountId
                /\ logged' = logged
                /\ outcome' = outcome
                /\ ret' = ret
                /\ IF V3AccountDiffers(response.json)
                   THEN /\ Len(stack) < recursion_limit
                        /\ stack' = Calls("switched",
                                          Frame("switch_session_account", "start",
                                                SwitchArg(account_id)))
                   ELSE stack' = Goto("switched")
           ELSE V3LogInFailed(response)
    /\ UNCHANGED <<variant, rest_api_timeout, recursion_limit, account_id, call>>

\* line 246 left out: the header keeps the old access token
V3RefreshHeaders_Stale(token) == authorization_headers

\* line 246
V3RefreshHeaders(token) ==
    Merge(authorization_headers, [h \in {"Authorization"} |-> Bearer(token)])

\* lines 238-243 raising as every other failure does, with no second login
V3RefreshFailed_Raises(response) ==
    /\ UNCHANGED <<oauth_token, authorization_headers, token_expiry_timestamp>>
    /\ logged' = logged \o LogError("Failed to refresh token", response)
    /\ Raises(Exception(<<>>))

\* lines 238-243 with the refused token thrown away before the login
V3RefreshFailed_ForgetsToken(response) ==
    /\ oauth_token' = None
    /\ UNCHANGED <<authorization_headers, token_expiry_timestamp, outcome, ret>>
    /\ logged' = logged \o LogError("Failed to refresh token", response)
    /\ Len(stack) < recursion_limit
    /\ stack' = Calls("logged_in", Frame("_log_in", "start", None))

\* lines 238-243: the refresh was refused, so log in again
V3RefreshFailed(response) ==
    /\ UNCHANGED <<oauth_token, authorization_headers, token_expiry_timestamp,
                   outcome, ret>>
    /\ logged' = logged \o LogError("Failed to refresh token", response)
    /\ Len(stack) < recursion_limit
    /\ stack' = Calls("logged_in", Frame("_log_in", "start", None))

\* lines 232-247
V3_refresh_token ==
    /\ variant = "V3"
    /\ At("_refresh_token", "start")
    /\ \E response \in V3RefreshResponses :
        /\ Exchanged
        /\ sent' = Append(sent, Request("refresh_token", "POST",
                                        "session/refresh-token",
                                        Merge(headers, Version("1")),
                                        json_dumps([refresh_token |->
                                                        oauth_token.refresh_token]),
                                        response))
        /\ srv_serial' = IF ok(response) THEN NewSerial ELSE srv_serial
        /\ IF ok(response)
           THEN /\ oauth_token' = response.json
                /\ authorization_headers' = V3RefreshHeaders(response.json)
                /\ token_expiry_timestamp' = Expiry(response.json)
                /\ logged' = logged
                /\ Returns(None)
           ELSE V3RefreshFailed(response)
    /\ UNCHANGED <<variant, rest_api_timeout, recursion_limit, account_id, srv_account, call>>

\* line 243
refresh_token_return ==
    /\ At("_refresh_token", "logged_in")
    /\ Returns(None)
    /\ UNCHANGED <<client, recursion_limit, now, srv_account, srv_serial, call, sent, logged>>
----------------------------------------------------------------------------

Init ==
    /\ variant \in {"V2", "V3"}
    /\ rest_api_timeout \in TimeoutConfigs
    /\ variant = "V2" => rest_api_timeout.type = "NoneType"
    /\ account_id \in Accounts
    /\ authorization_headers = None
    /\ oauth_token = None
    /\ token_expiry_timestamp = None
    /\ stack = <<>>
    /\ recursion_limit = MaxDepth
    /\ ret = None
    /\ now = 0
    /\ srv_account \in Accounts
    /\ srv_serial = NumTokens
    /\ call = None
    /\ outcome = Pending
    /\ sent = <<>>
    /\ logged = <<>>

Next ==
    \/ get
    \/ post
    \/ put
    \/ delete
    \/ switch_session_account
    \/ switch_session_account_put
    \/ switch_session_account_return
    \/ session_details
    \/ session_details_get
    \/ session_details_return
    \/ log_out
    \/ log_out_delete
    \/ log_out_return
    \/ V2_request
    \/ V2_request_send
    \/ V2_log_in
    \/ log_in_return
    \/ V3_request
    \/ V3_request_check_expiry
    \/ V3_request_send
    \/ V3_log_in
    \/ V3_refresh_token
    \/ refresh_token_return

Spec == Init /\ [][Next]_vars

\* A V3 session with the default timeout (every token the server grants is
\* within it, so every request finds a refresh due), called through get, on a
\* stack deep enough for a login inside a login inside a login.
DeepInit ==
    /\ variant = "V3"
    /\ rest_api_timeout = [type |-> "NoneType", value |-> 0]
    /\ account_id \in Accounts
    /\ authorization_headers = None
    /\ oauth_token = None
    /\ token_expiry_timestamp = None
    /\ stack = <<>>
    /\ recursion_limit = MaxChainDepth
    /\ ret = None
    /\ now = 0
    /\ srv_account \in Accounts
    /\ srv_serial = NumTokens
    /\ call = None
    /\ outcome = Pending
    /\ sent = <<>>
    /\ logged = <<>>

DeepNext ==
    \/ get
    \/ switch_session_account_put
    \/ switch_session_account_return
    \/ log_in_return
    \/ V3_request
    \/ V3_request_check_expiry
    \/ V3_request_send
    \/ V3_log_in
    \/ V3_refresh_token
    \/ refresh_token_return

DeepSpec == DeepInit /\ [][DeepNext]_vars

----------------------------------------------------------------------------
(* What the claims speak of. *)

\* the Credential State is fully there
Populated ==
    IF variant = "V2"
    THEN authorization_headers # None
    ELSE /\ oauth_token # None
         /\ authorization_headers # None
         /\ token_expiry_timestamp # None

\* this step sends a transport request, and Sent is its record
Sends == Len(sent') = Len(sent) + 1
Sent == sent'[Len(sent')]
Last == sent[Len(sent)]

Answered(e) == e.status_code < 400
\* the request of the facade call itself, not one a login made on its way
IsOwnRequest(e) == e.kind = "request" /\ e.own
IsLogInOk(e) == e.kind = "log_in" /\ Answered(e)
LogInAccount(e) ==
    IF "currentAccountId" \in DOMAIN e.reply
    THEN e.reply.currentAccountId
    ELSE e.reply.accountId
\* the PUT /session a login makes to switch to account a
IsImplicitSwitchTo(e, a) ==
    /\ e.kind = "request"
    /\ ~e.own
    /\ e.method = "PUT"
    /\ e.endpoint = "session"
    /\ e.data = [json |-> [accountId |-> a, defaultAccount |-> FALSE]]

----------------------------------------------------------------------------
(* C1: in either class, every transport request other than the login       *)
(* request goes out only when a successful login has populated the          *)
(* credential state.                                                        *)
C1_NoRequestBeforeLogIn ==
    [][(Sends /\ Sent.kind # "log_in") => Populated]_vars

\* a facade call on a fresh session logged in and then sent its own request
C1_Witness ==
    /\ Len(sent) >= 2
    /\ IsLogInOk(sent[1])
    /\ IsOwnRequest(sent[2])

(* C2: when a login answer names an account other than the locally tracked *)
(* one, a PUT /session for the locally tracked account is sent after the    *)
(* login request and before the facade call's own request.                  *)
C2_SwitchBetweenLogInAndRequest ==
    \A i \in 1..Len(sent) :
        (IsLogInOk(sent[i]) /\ LogInAccount(sent[i]) # call.account_id) =>
            \A k \in (i + 1)..Len(sent) :
                IsOwnRequest(sent[k]) =>
                    \E j \in (i + 1)..(k - 1) :
                        IsImplicitSwitchTo(sent[j], call.account_id)

\* login named another account, the switch went out, then the own request
C2_Witness ==
    /\ Len(sent) = 3
    /\ IsLogInOk(sent[1])
    /\ LogInAccount(sent[1]) # call.account_id
    /\ IsImplicitSwitchTo(sent[2], call.account_id)
    /\ IsOwnRequest(sent[3])

\* the step of line 187, and whether it called _refresh_token
ChecksExpiry == variant = "V3" /\ At("_request", "logged_in")
RefreshCalled == stack'[Len(stack')].fn = "_refresh_token"
\* what line 187 adds to the clock
TimeoutMargin ==
    IF rest_api_timeout.type \in {"float", "int"}
    THEN rest_api_timeout.value
    ELSE DEFAULT_TIMEOUT_IN_SECONDS

(* C3, as claimed: in V3 a facade call refreshes the token before its own  *)
(* request if and only if the clock is at or past the stored expiry.        *)
C3_RefreshIffExpired ==
    [][(ChecksExpiry /\ ~InLogIn) =>
          (RefreshCalled <=> now >= token_expiry_timestamp.timestamp)]_vars

(* C3, amended: in V3 a request refreshes the token first if and only if   *)
(* the clock plus the request timeout (10 s when the timeout is no number)  *)
(* is past the stored expiry.                                               *)
C3_RefreshIffCompletionPastExpiry ==
    [][ChecksExpiry =>
          (RefreshCalled <=>
              now + TimeoutMargin > token_expiry_timestamp.timestamp)]_vars

\* a refresh was called while the clock was still before the expiry
C3_Witness ==
    /\ At("_refresh_token", "start")
    /\ now < token_expiry_timestamp.timestamp

\* a call is or was made
Called == call # None
\* an answer that issues an access token, and the header that carries one
Issues(e) == e.kind \in {"log_in", "refresh_token"} /\ Answered(e)
BearerOf(e) == <<"Bearer ">> \o e.reply.access_token
\* the last answer before request k that issued a token
LastIssue(k) ==
    CHOOSE j \in 1..(k - 1) :
        Issues(sent[j]) /\ \A m \in (j + 1)..(k - 1) : ~Issues(sent[m])

(* C4: in V3, a facade call on a logged-in session whose token has expired *)
(* sends POST session/refresh-token before its own request, and the own     *)
(* request carries the access token that refresh obtained.                  *)
C4_RefreshBeforeOwnRequest ==
    (Called /\ call.expired /\ sent # <<>>) =>
        /\ sent[1].kind = "refresh_token"
        /\ (Answered(sent[1]) /\ Len(sent) >= 2) =>
              /\ IsOwnRequest(sent[2])
              /\ sent[2].headers["Authorization"] = BearerOf(sent[1])

\* the token had expired, the refresh was answered, the own request went out
C4_Witness ==
    /\ Called
    /\ call.expired
    /\ Len(sent) = 2
    /\ sent[1].kind = "refresh_token"
    /\ Answered(sent[1])
    /\ IsOwnRequest(sent[2])
    /\ Answered(sent[2])

\* the refresh the facade call's own request made was refused
OwnRefreshRefused(i) ==
    sent[i].kind = "refresh_token" /\ sent[i].own /\ ~Answered(sent[i])

RefreshAnswered ==
    variant = "V3" /\ At("_refresh_token", "start") /\ Sends /\ Answered(Sent)

(* C6: in V3 an answered refresh stores the access/refresh token pair of    *)
(* the answer and sets the expiry to the time the answer came plus the new  *)
(* expires_in.                                                              *)
C6_RefreshReplacesTokenAndExpiry ==
    [][RefreshAnswered =>
          /\ oauth_token'.access_token = Sent.reply.access_token
          /\ oauth_token'.access_token = <<"access", srv_serial'>>
          /\ oauth_token'.refresh_token = <<"refresh", srv_serial'>>
          /\ authorization_headers'["Authorization"] = BearerOf(Sent)
          /\ token_expiry_timestamp' =
                 [timestamp |-> now' + oauth_token'.expires_in]]_vars

\* a refresh was answered after the call began at a later time than it started
C6_Witness ==
    /\ At("_request", "send")
    /\ Len(sent) = 1
    /\ sent[1].kind = "refresh_token"
    /\ Answered(sent[1])
    /\ call.expired
    /\ now > 0
    /\ token_expiry_timestamp.timestamp = now + oauth_token.expires_in

\* this step is an answered request of _request
RequestAnswered == At("_request", "send") /\ Sends /\ Answered(Sent)

(* C7: in V2, after every answered request each of CST and X-SECURITY-TOKEN *)
(* that the response carries replaces the stored value, and each one absent *)
(* from the response keeps its stored value.                                *)
C7_AbsorbsTrackedHeaders ==
    [][(variant = "V2" /\ RequestAnswered) =>
          \A h \in {"CST", "X-SECURITY-TOKEN"} :
              authorization_headers'[h] =
                  IF h \in DOMAIN Sent.response_headers
                  THEN Sent.response_headers[h]
                  ELSE authorization_headers[h]]_vars

\* the last answer carried X-SECURITY-TOKEN alone: it was taken, CST was kept
C7_Witness ==
    /\ variant = "V2"
    /\ sent # <<>>
    /\ Last.kind = "request"
    /\ Answered(Last)
    /\ DOMAIN Last.response_headers = {"X-SECURITY-TOKEN"}
    /\ authorization_headers["X-SECURITY-TOKEN"] =
           Last.response_headers["X-SECURITY-TOKEN"]
    /\ authorization_headers["CST"][2] # srv_serial

\* this step is the facade call's own request, refused by the server
OwnRequestRefused ==
    At("_request", "send") /\ ~InLogIn /\ Sends /\ ~Answered(Sent)
\* the request before this step was the call's own, and was refused
AfterOwnRequestRefused ==
    sent # <<>> /\ IsOwnRequest(Last) /\ ~Answered(Last)

SwitchConfirmed ==
    /\ At("switch_session_account", "put_returned")
    /\ sent # <<>>
    /\ Last.kind = "request"
    /\ Last.method = "PUT"
    /\ Last.endpoint = "session"
    /\ Answered(Last)
    /\ Last.data = [json |-> [accountId |-> Top.arg.account_id,
                              defaultAccount |-> FALSE]]
AccountHeaderChanges ==
    /\ variant = "V3"
    /\ authorization_headers # None
    /\ authorization_headers' # None
    /\ authorization_headers'["IG-ACCOUNT-ID"] #
           authorization_headers["IG-ACCOUNT-ID"]

(* C9: the locally tracked account (and in V3 the IG-ACCOUNT-ID header) is  *)
(* set by switch_session_account only after the server answered the PUT     *)
(* /session, and a switch call that fails leaves the locally tracked        *)
(* account as it was before the call.                                       *)
C9_SwitchOnlyAfterConfirmation ==
    /\ []((Called /\ call.op = "switch_session_account"
              /\ outcome.kind = "raise") => account_id = call.account_id)
    /\ [][/\ account_id' # account_id =>
                 SwitchConfirmed /\ account_id' = Top.arg.account_id
          /\ AccountHeaderChanges =>
                 \/ /\ SwitchConfirmed
                    /\ authorization_headers'["IG-ACCOUNT-ID"] =
                           Top.arg.account_id
                 \/ At("_log_in", "start")]_vars

\* a switch to another account was refused and the local account stayed
C9_Witness ==
    /\ Called
    /\ call.op = "switch_session_account"
    /\ call.arg.account_id # call.account_id
    /\ AfterOwnRequestRefused
    /\ outcome.kind = "raise"
    /\ account_id = call.account_id

\* session_details got its answer from GET /session and has ended
DetailsAnswered ==
    /\ Called
    /\ call.op = "session_details"
    /\ Idle
    /\ sent # <<>>
    /\ IsOwnRequest(Last)
    /\ Answered(Last)
ConsistencyError ==
    [exception |-> [args |-> <<"incorrect accountId in session details">>,
                    type |-> "Exception"],
     kind |-> "raise"]

(* C10: session_details raises the consistency error exactly when the       *)
(* account of the GET /session answer differs from the locally tracked one, *)
(* and otherwise returns the answer.                                        *)
C10_DetailsRaiseIffAccountDiffers ==
    /\ DetailsAnswered =>
           IF Last.reply.accountId # account_id
           THEN outcome = ConsistencyError
           ELSE outcome = [kind |-> "return", value |-> Last.reply]
    /\ outcome = ConsistencyError =>
           DetailsAnswered /\ Last.reply.accountId # account_id

\* session_details found the server on another account and raised
C10_Witness ==
    /\ DetailsAnswered
    /\ Last.reply.accountId # account_id
    /\ outcome = ConsistencyError

\* the step that ends a login (with its account switch, if it made one) or a
\* switch_session_account: both return only when every request was answered
LogInReturns == At("_log_in", "switched")
SwitchReturns == At("switch_session_account", "put_returned")

(* C11: when a login (with its implicit account switch) or a                *)
(* switch_session_account returns, the locally tracked account is the       *)
(* account the server holds as active.                                      *)
C11_LocalAccountIsServerAccount ==
    [][(LogInReturns \/ SwitchReturns) => account_id' = srv_account']_vars

\* a switch_session_account call to another account returned, and a login
\* whose answer named another account had switched before it
C11_Witness ==
    /\ Called
    /\ call.op = "switch_session_account"
    /\ call.arg.account_id # call.account_id
    /\ Len(sent) = 3
    /\ IsLogInOk(sent[1])
    /\ LogInAccount(sent[1]) # call.account_id
    /\ IsImplicitSwitchTo(sent[2], call.account_id)
    /\ Answered(sent[2])
    /\ Idle
    /\ outcome.kind = "return"
    /\ account_id = call.arg.account_id
    /\ srv_account = account_id

\* the Credential State has no part set
Absent ==
    /\ authorization_headers = None
    /\ oauth_token = None
    /\ token_expiry_timestamp = None
\* every part of the Credential State is set, and has its fields
FullyPopulated ==
    IF variant = "V2"
    THEN /\ authorization_headers # None
         /\ DOMAIN authorization_headers = {"CST", "X-SECURITY-TOKEN"}
    ELSE /\ oauth_token # None
         /\ authorization_headers # None
         /\ token_expiry_timestamp # None
         /\ DOMAIN authorization_headers = {"IG-ACCOUNT-ID", "Authorization"}
         /\ DOMAIN oauth_token = {"access_token", "expires_in", "refresh_token"}

(* C12: whenever no facade call is in progress (before the first call and   *)
(* after every call, whether it returned or raised) the Credential State is *)
(* either absent as a whole or populated as a whole.                        *)
C12_AbsentOrPopulated == Idle => (Absent \/ FullyPopulated)

\* a V3 call raised after its login had stored the credentials: the account
\* switch of the login was refused
C12_Witness ==
    /\ variant = "V3"
    /\ Idle
    /\ outcome.kind = "raise"
    /\ Len(sent) = 2
    /\ IsLogInOk(sent[1])
    /\ IsImplicitSwitchTo(sent[2], call.account_id)
    /\ ~Answered(sent[2])
    /\ FullyPopulated

\* this step is a login that the server refuses while no credentials are held
LogInRefusedWhileAbsent ==
    At("_log_in", "start") /\ Absent /\ Sends /\ ~Answered(Sent)
\* the call in progress, or the last one, began with a refused login
BeganWithRefusedLogIn ==
    sent # <<>> /\ sent[1].kind = "log_in" /\ ~Answered(sent[1])

(* C13: when no credentials are held and the server refuses the login, the  *)
(* facade call raises the error of the failed login, the login is the only  *)
(* request of the call (no second login, no own request), the Credential    *)
(* State stays absent, and the first request of a call made while it is     *)
(* absent is a login.                                                       *)
C13_RefusedLogInAborts ==
    /\ [](BeganWithRefusedLogIn =>
             /\ Idle
             /\ Len(sent) = 1
             /\ outcome = [exception |-> [args |-> <<>>, type |-> "Exception"],
                           kind |-> "raise"]
             /\ logged[1] = [msg |-> "Failed to log in"]
             /\ Absent)
    /\ [][/\ LogInRefusedWhileAbsent => (sent = <<>> /\ stack' = <<>> /\ Absent')
          /\ (Sends /\ Absent) => (sent = <<>> /\ Sent.kind = "log_in")]_vars

\* a call on a session without credentials ended with its login refused
C13_Witness ==
    /\ Idle
    /\ BeganWithRefusedLogIn
    /\ outcome.kind = "raise"
    /\ Absent
    /\ logged[1] = [msg |-> "Failed to log in"]

\* this step sends the request of _request, and these are the headers the
\* caller of _request gave (none is an empty dict)
RequestSent == At("_request", "send") /\ Sends
PerCallHeaders == IF Top.arg.headers = None THEN EmptyDict ELSE Top.arg.headers

(* C14: the headers of every request _request sends are the base headers,   *)
(* overlaid by the stored authorization headers, overlaid by the headers    *)
(* the caller gave: a name has the caller's value if the caller names it,   *)
(* else the authorization headers' if they name it, else the base value;    *)
(* the stored authorization headers take no value from the merge (in V2     *)
(* they take what the response carries, and nothing else).                  *)
C14_ThreeTierMerge ==
    [][RequestSent =>
          /\ DOMAIN Sent.headers =
                 DOMAIN headers \cup DOMAIN authorization_headers
                     \cup DOMAIN PerCallHeaders
          /\ \A k \in DOMAIN Sent.headers :
                 Sent.headers[k] =
                     IF k \in DOMAIN PerCallHeaders THEN PerCallHeaders[k]
                     ELSE IF k \in DOMAIN authorization_headers
                          THEN authorization_headers[k]
                          ELSE headers[k]
          /\ DOMAIN authorization_headers' = DOMAIN authorization_headers
          /\ \A k \in DOMAIN authorization_headers :
                 \/ authorization_headers'[k] = authorization_headers[k]
                 \/ /\ variant = "V2"
                    /\ k \in DOMAIN Sent.response_headers
                    /\ authorization_headers'[k] = Sent.response_headers[k]]_vars

\* a get whose caller named Accept, CST and IG-ACCOUNT-ID went out with the
\* caller's values, and the stored headers still hold the session's
C14_Witness ==
    /\ Called
    /\ call.op = "get"
    /\ call.arg.headers # None
    /\ Idle
    /\ outcome.kind = "return"
    /\ IsOwnRequest(Last)
    /\ Last.headers["Accept"] = "text/plain"
    /\ Last.headers["Content-Type"] = "application/json"
    /\ \E k \in DOMAIN authorization_headers \cap DOMAIN call.arg.headers :
           /\ Last.headers[k] = "caller"
           /\ authorization_headers[k] # "caller"

\* the first request of the facade call in progress goes out in this step
FirstRequestSent == sent = <<>> /\ Sends
\* the request carries the stored credentials, where the caller did not name
\* the header himself
CarriesCredentials(e, given) ==
    \A k \in DOMAIN authorization_headers \ DOMAIN given :
        e.headers[k] = authorization_headers[k]
\* log_out has returned: its DELETE /session was answered, the credentials
\* are still held
LogOutKeepsCredentials ==
    LoggedOut =>
        /\ Populated
        /\ Len(sent) >= 1
        /\ IsOwnRequest(Last)
        /\ Last.method = "DELETE"
        /\ Last.endpoint = "session"
        /\ Answered(Last)
\* nothing touches the credentials before the first request of a call
UntouchedBeforeFirstRequest ==
    (stack # <<>> /\ sent = <<>> /\ ~Sends) =>
        UNCHANGED <<authorization_headers, oauth_token, token_expiry_timestamp>>

(* C15, as claimed: log_out sends DELETE /session and keeps the Credential  *)
(* State populated, and the first request of the facade call after it is    *)
(* that call's own request, carrying the kept credentials: no login and no  *)
(* other request goes first.                                                *)
C15_NextCallSendsOwnRequest ==
    /\ []LogOutKeepsCredentials
    /\ [][/\ UntouchedBeforeFirstRequest
          /\ (call # None /\ call.logged_out /\ FirstRequestSent) =>
                 /\ IsOwnRequest(Sent)
                 /\ CarriesCredentials(Sent, PerCallHeaders)]_vars

(* C15, amended: log_out sends DELETE /session and keeps the Credential     *)
(* State populated; the first request of the facade call after it is never  *)
(* a login: it is that call's own request carrying the kept credentials,    *)
(* except that in V3 it is a token refresh exactly when the clock plus the  *)
(* request timeout is past the stored expiry.                               *)
C15_LogOutKeepsCredentials ==
    /\ []LogOutKeepsCredentials
    /\ [][/\ UntouchedBeforeFirstRequest
          /\ (call # None /\ call.logged_out /\ FirstRequestSent) =>
                 /\ Sent.kind # "log_in"
                 /\ Sent.kind = "refresh_token" <=>
                        /\ variant = "V3"
                        /\ now + TimeoutMargin > token_expiry_timestamp.timestamp
                 /\ Sent.kind = "request" =>
                        /\ IsOwnRequest(Sent)
                        /\ CarriesCredentials(Sent, PerCallHeaders)]_vars

\* the call after a log_out sent its own request first, and nothing else
C15_Witness ==
    /\ Called
    /\ call.logged_out
    /\ Idle
    /\ Len(sent) = 1
    /\ IsOwnRequest(sent[1])
    /\ Populated

\* request i of the call was a refused refresh and request i + 1 the login
\* that followed it, refused as well
RefreshAndLogInRefused(i) ==
    /\ i + 1 <= Len(sent)
    /\ sent[i].kind = "refresh_token"
    /\ ~Answered(sent[i])
    /\ sent[i + 1].kind = "log_in"
    /\ ~Answered(sent[i + 1])
\* this step is a refresh or a login that the server refuses
RefreshOrLogInRefused ==
    /\ variant = "V3"
    /\ At("_refresh_token", "start") \/ At("_log_in", "start")
    /\ Sends
    /\ ~Answered(Sent)
\* line 187 would call for a refresh now
RefreshDue ==
    /\ variant = "V3"
    /\ Populated
    /\ now + TimeoutMargin > token_expiry_timestamp.timestamp

(* C16, as claimed: in V3, when a refresh is refused and the login that     *)
(* follows it is refused too, the call raises and the Credential State is   *)
(* absent afterwards.                                                       *)
C16_DoubleFailureClearsSession ==
    \A i \in 1..Len(sent) :
        RefreshAndLogInRefused(i) =>
            /\ Idle
            /\ outcome.kind = "raise"
            /\ Absent

(* C16, amended: in V3, when a refresh is refused and the login that        *)
(* follows it is refused too, the call raises with nothing more sent, and   *)
(* the Credential State stays populated with what it held before the        *)
(* refresh; a refresh is then still due, so the first request of a call     *)
(* made in that state is another refresh and not a login.                   *)
C16_DoubleFailureKeepsSession ==
    /\ [](\A i \in 1..Len(sent) :
             RefreshAndLogInRefused(i) =>
                 /\ Idle
                 /\ Len(sent) = i + 1
                 /\ outcome = [exception |-> [args |-> <<>>, type |-> "Exception"],
                               kind |-> "raise"]
                 /\ FullyPopulated
                 /\ RefreshDue)
    /\ [][/\ RefreshOrLogInRefused => client' = client
          /\ now' >= now
          /\ UntouchedBeforeFirstRequest
          /\ (FirstRequestSent /\ RefreshDue) => Sent.kind = "refresh_token"]_vars

\* a call on a logged-in session: refresh refused, login refused, the call
\* raised and the old credentials are still held
C16_Witness ==
    /\ Idle
    /\ Len(sent) = 2
    /\ RefreshAndLogInRefused(1)
    /\ sent[1].own
    /\ outcome.kind = "raise"
    /\ FullyPopulated
    /\ oauth_token.refresh_token = sent[1].data.json.refresh_token

\* this step is the exchange of a login or of a token refresh
LogInOrRefreshSent == Sends /\ Sent.kind \in {"log_in", "refresh_token"}

(* C17: in V3 the Credential State (token pair, expiry, authorization       *)
(* headers) changes only in a login exchange, a refresh exchange or the     *)
(* return of switch_session_account: a call that makes none of them leaves  *)
(* it as it was, whatever headers its answer carries.                       *)
C17_OrdinaryCallKeepsCredentials ==
    [][(variant = "V3" /\ ~LogInOrRefreshSent /\ ~SwitchReturns) =>
          UNCHANGED <<authorization_headers, oauth_token,
                      token_expiry_timestamp>>]_vars

\* a V3 get returned after its own request alone, whose answer carried
\* headers under the stored names: the stored ones are not the answer's
C17_Witness ==
    /\ variant = "V3"
    /\ Called
    /\ call.op = "get"
    /\ Idle
    /\ outcome.kind = "return"
    /\ Len(sent) = 1
    /\ IsOwnRequest(sent[1])
    /\ "Authorization" \in DOMAIN sent[1].response_headers
    /\ authorization_headers["Authorization"] = <<"Bearer ">> \o oauth_token.access_token
    /\ authorization_headers["IG-ACCOUNT-ID"] # sent[1].response_headers["IG-ACCOUNT-ID"]

\* the _log_in frames open at once: each but the first was called by the
\* chain _log_in -> switch_session_account -> _request -> _refresh_token
\* (refused) -> _log_in
LogInFrames == {i \in 1..Len(stack) : stack[i].fn = "_log_in"}

(* C18, as claimed: within one facade call the chain login, implicit        *)
(* account switch, refresh check, refused refresh, fallback login does not  *)
(* repeat: a fallback login made inside the account switch of a login never *)
(* starts the chain again, so no more than two logins are ever open at      *)
(* once.                                                                    *)
C18_ChainDoesNotRepeat == Cardinality(LogInFrames) <= 2

\* this step dispatches the own request of the facade call: the request of
\* _request, outside every login
OwnRequestSent == RequestSent /\ ~InLogIn

(* C19, as claimed: whenever the own request of a facade call is            *)
(* dispatched, the locally tracked account is the account the server holds  *)
(* as active, also in calls made after a call that failed in the account    *)
(* switch of its login.                                                     *)
C19_OwnRequestOnLocalAccount ==
    [][OwnRequestSent => account_id = srv_account]_vars

(* C20, as claimed: in V3, whenever the Credential State is populated and   *)
(* no facade call is in progress, the stored IG-ACCOUNT-ID header is the    *)
(* locally tracked account.                                                 *)
C20_AccountHeaderIsLocalAccount ==
    (variant = "V3" /\ Idle /\ Populated) =>
        authorization_headers["IG-ACCOUNT-ID"] = account_id

====
